---- MODULE Spec2Model ----
(***************************************************************************)
(* Billing / entitlement flow of the sales-research dashboard.             *)
(*                                                                         *)
(*   - app/dashboard/layout.tsx : DashboardLayout + getData, the lazy      *)
(*     provisioning of the local User row and of the Stripe customer.      *)
(*   - the Stripe webhook route (POST): signature verification, dispatch   *)
(*     on the event kind, insertion of a Payment row.                      *)
(*   - the billing page (BillingPage): the entitlement it reads from the   *)
(*     Payment table, and its two server actions createSubscription and    *)
(*     createCustomerPortal.                                               *)
(*                                                                         *)
(* Every request is an independent process.  A request is atomic between   *)
(* two awaited calls to the store or to the payment provider, so each      *)
(* action below is one awaited call together with the synchronous code     *)
(* that follows it up to the next awaited call.  The store answers every   *)
(* call (a call fails only on a key constraint); the provider's calls      *)
(* may fail.                                                               *)
(***************************************************************************)
EXTENDS Integers, Sequences, FiniteSets, TLC

\* ------------------------------------------------------------------ bounds
\* Number of requests the server receives, dashboard requests, webhook
\* deliveries and billing page requests together, in any mix.  Requests of a kind are numbered as they
\* arrive.
MaxRequests == 3

Visits == 1..MaxRequests
Hooks == 1..MaxRequests
Pages == 1..MaxRequests

\* ------------------------------------------------------------------ values
\* JavaScript null / undefined of a string-typed value.
NULL == "NULL"

\* An optional value: <<>> is null, <<x>> is x.
None == <<>>
Some(x) == <<x>>

\* Mutant of String: the customer is passed to the lookup as it is.
String_Identity(x) == x

\* String(x) of a nullable string: String(null) is the string "null".
String(x) == IF x = NULL THEN "null" ELSE x

\* The id the payment provider gives its n-th customer.
CusId(n) == "cus_" \o ToString(n)

\* The url of the n-th hosted session (checkout or billing portal) of the provider.
SessionUrl(kind, n) == "https://stripe/" \o kind \o "/" \o ToString(n)

\* ------------------------------------------------------------------ inputs
\* What auth() and currentUser() return for a request.
Sessions ==
    { [userId |-> NULL,  email |-> NULL,      firstName |-> NULL,  lastName |-> NULL],
      [userId |-> "u_1", email |-> "a@b.com", firstName |-> "Ann", lastName |-> NULL],
      [userId |-> "u_2", email |-> "c@d.com", firstName |-> NULL,  lastName |-> "Lee"],
      [userId |-> "u_3", email |-> NULL,      firstName |-> "Bo",  lastName |-> "Ray"] }

NoSession == [userId |-> NULL, email |-> NULL, firstName |-> NULL, lastName |-> NULL]

\* payment_intent, amount_total (minor units, nullable), currency, payment_status
\* of the checkout sessions the provider reports.
PaidSession ==
    [payment_intent |-> "pi_1", amount_total |-> Some(4000), currency |-> "usd",
     payment_status |-> "paid"]
UnpaidSession ==
    [payment_intent |-> "pi_2", amount_total |-> Some(4050), currency |-> "eur",
     payment_status |-> "unpaid"]
FreeSession ==
    [payment_intent |-> "pi_3", amount_total |-> None, currency |-> "usd",
     payment_status |-> "no_payment_required"]

MkEvent(type, mode, customer, s) ==
    [type |-> type, mode |-> mode, customer |-> customer,
     payment_intent |-> s.payment_intent, amount_total |-> s.amount_total,
     currency |-> s.currency, payment_status |-> s.payment_status]

\* Completed one-off checkouts: of the provider's first customer (paid, and
\* unpaid), of its second customer, and of a session that names no customer.
PaymentEvents ==
    { MkEvent("checkout.session.completed", "payment", CusId(1), PaidSession),
      MkEvent("checkout.session.completed", "payment", CusId(1), UnpaidSession),
      MkEvent("checkout.session.completed", "payment", CusId(2), FreeSession),
      MkEvent("checkout.session.completed", "payment", NULL, PaidSession) }

NoopEvents ==
    { MkEvent("checkout.session.completed", "subscription", CusId(1), PaidSession),
      MkEvent("invoice.payment_succeeded", NULL, CusId(1), PaidSession),
      MkEvent("customer.created", NULL, NULL, FreeSession) }

Events == PaymentEvents \cup NoopEvents

\* A delivery: the event its body encodes, and whether its signature matches.
\* Every event is delivered signed; a paid checkout is also delivered forged.
Deliveries ==
    { [body |-> e, sigOk |-> TRUE] : e \in Events } \cup
    { [body |-> MkEvent("checkout.session.completed", "payment", CusId(1), PaidSession),
       sigOk |-> FALSE] }

NoEvent == MkEvent(NULL, NULL, NULL,
                   [payment_intent |-> NULL, amount_total |-> None,
                    currency |-> NULL, payment_status |-> NULL])

\* ------------------------------------------------------------------ state
VARIABLES
    users,      \* table User, in insertion order
    payments,   \* table Payment, in insertion order
    customers,  \* the payment provider's customer records, in creation order
    vpc,        \* dashboard request: position in DashboardLayout / getData
    vsess,      \* dashboard request: its session (clerkId, email, names)
    vuser,      \* dashboard request: getData's local `user` (None or Some(row))
    vdata,      \* dashboard request: getData's local `data.id`
    verr,       \* dashboard request: the error it threw, or NULL
    vlog,       \* dashboard request: the store and provider calls made so far
    hpc,        \* webhook delivery: position in POST
    hbody,      \* webhook delivery: the event the request body encodes
    hsig,       \* webhook delivery: whether the signature matches the body
    hevent,     \* webhook delivery: POST's local `event` (data.object flattened)
    huser,      \* webhook delivery: POST's local `user` (None or Some(row))
    hresp,      \* webhook delivery: response status, 0 while none was returned
    hlog,       \* webhook delivery: the store calls POST has made so far
    stripeSessions, \* the provider's hosted sessions, in creation order
    bpc,        \* billing page request: position in BillingPage and its action
    bsess,      \* billing page request: its session
    bdata,      \* billing page request: BillingPage's `data` (None or Some(row))
    bdb,        \* billing page request: createSubscription's dbUser.stripe_customer_id
    burl,       \* billing page request: the target of its redirect, or NULL
    berr,       \* billing page request: the error it threw, or NULL
    blog        \* billing page request: the store and provider calls made so far

vars == <<users, payments, customers, vpc, vsess, vuser, vdata, verr, vlog,
          hpc, hbody, hsig, hevent, huser, hresp, hlog,
          stripeSessions, bpc, bsess, bdata, bdb, burl, berr, blog>>

visitVars == <<vpc, vsess, vuser, vdata, verr, vlog>>
hookVars == <<hpc, hbody, hsig, hevent, huser, hresp, hlog>>
pageVars == <<stripeSessions, bpc, bsess, bdata, bdb, burl, berr, blog>>

\* ------------------------------------------------------------------ store
\* prisma.user.findUnique({ where: { clerk_id } }): None or Some(row).
FindUserByClerk(tbl, clerkId) ==
    IF \E i \in 1..Len(tbl) : tbl[i].clerk_id = clerkId
    THEN Some(tbl[CHOOSE i \in 1..Len(tbl) : tbl[i].clerk_id = clerkId])
    ELSE None

\* Mutant of FindUserByCustomer: the first row stands in for a missing one.
FindUserByCustomer_Fallback(tbl, customerId) ==
    IF \E i \in 1..Len(tbl) : tbl[i].stripe_customer_id = customerId
    THEN Some(tbl[CHOOSE i \in 1..Len(tbl) : tbl[i].stripe_customer_id = customerId])
    ELSE IF tbl # <<>> THEN Some(tbl[1]) ELSE None

\* prisma.user.findUnique({ where: { stripe_customer_id } }): None or Some(row).
FindUserByCustomer(tbl, customerId) ==
    IF \E i \in 1..Len(tbl) : tbl[i].stripe_customer_id = customerId
    THEN Some(tbl[CHOOSE i \in 1..Len(tbl) : tbl[i].stripe_customer_id = customerId])
    ELSE None

\* The select { user_id, stripe_customer_id } of getData's lookups.
SelectIdAndCustomer(found) ==
    IF found = None THEN None
    ELSE Some([user_id |-> found[1].user_id,
               stripe_customer_id |-> found[1].stripe_customer_id])

\* `${firstName ?? ""} ${lastName ?? ""}`
FullName(firstName, lastName) ==
    (IF firstName = NULL THEN "" ELSE firstName) \o " " \o
    (IF lastName = NULL THEN "" ELSE lastName)

\* Mutant of ClerkIdIsFree: clerk_id is no unique key.
ClerkIdIsFree_NoKey(tbl, clerkId) == TRUE

\* The unique key on clerk_id that findUnique({ where: { clerk_id } }) relies on.
ClerkIdIsFree(tbl, clerkId) == FindUserByClerk(tbl, clerkId) = None

\* Mutant of NewUserRow: email and name are swapped.
NewUserRow_SwappedFields(tbl, s) ==
    [user_id |-> Len(tbl) + 1,
     clerk_id |-> s.userId,
     email |-> FullName(s.firstName, s.lastName),
     name |-> s.email,
     stripe_customer_id |-> NULL]

\* The row prisma.user.create inserts: no stripe_customer_id is given.
NewUserRow(tbl, s) ==
    [user_id |-> Len(tbl) + 1,
     clerk_id |-> s.userId,
     email |-> s.email,
     name |-> FullName(s.firstName, s.lastName),
     stripe_customer_id |-> NULL]

\* prisma.user.create: the table after the insertion.
UserCreate(tbl, s) == Append(tbl, NewUserRow(tbl, s))

\* Mutant of SetCustomer: the update has no where clause.
SetCustomer_AllRows(tbl, clerkId, customerId) ==
    [i \in 1..Len(tbl) |-> [tbl[i] EXCEPT !.stripe_customer_id = customerId]]

\* prisma.user.update({ where: { clerk_id }, data: { stripe_customer_id } })
SetCustomer(tbl, clerkId, customerId) ==
    [i \in 1..Len(tbl) |->
        IF tbl[i].clerk_id = clerkId
        THEN [tbl[i] EXCEPT !.stripe_customer_id = customerId]
        ELSE tbl[i]]

\* The unique key on stripe_customer_id that the webhook's findUnique relies on.
CustomerIdIsFree(tbl, clerkId, customerId) ==
    \A i \in 1..Len(tbl) :
        tbl[i].stripe_customer_id = customerId => tbl[i].clerk_id = clerkId

\* Mutant of Amount: an integer division, which drops the hundredths.
Amount_Truncated(amount_total) ==
    LET minor == IF amount_total = None THEN 0 ELSE amount_total[1]
    IN  [units |-> minor \div 100, hundredths |-> 0]

\* (session.amount_total ?? 0) / 100 as a decimal: whole units and hundredths.
Amount(amount_total) ==
    LET minor == IF amount_total = None THEN 0 ELSE amount_total[1]
    IN  [units |-> minor \div 100, hundredths |-> minor % 100]

\* The row prisma.payment.create inserts for a checkout session.
NewPaymentRow(tbl, user, e) ==
    [payment_id |-> Len(tbl) + 1,
     stripe_payment_id |-> e.payment_intent,
     user_id |-> user.user_id,
     amount |-> Amount(e.amount_total),
     currency |-> e.currency,
     status |-> e.payment_status]

\* Payment has no key but payment_id: any payment reference may be inserted.
PaymentKeysAreFree(tbl, row) == TRUE

\* Mutant of PaymentCreate: the row is inserted twice.
PaymentCreate_Twice(tbl, user, e) ==
    Append(Append(tbl, NewPaymentRow(tbl, user, e)), NewPaymentRow(tbl, user, e))

\* Mutant of PaymentCreate: a user has one Payment row, which a later
\* checkout overwrites.
PaymentCreate_ReplaceUsersRow(tbl, user, e) ==
    IF \E k \in 1..Len(tbl) : tbl[k].user_id = user.user_id
    THEN [k \in 1..Len(tbl) |->
            IF tbl[k].user_id = user.user_id
            THEN [NewPaymentRow(tbl, user, e) EXCEPT !.payment_id = k]
            ELSE tbl[k]]
    ELSE Append(tbl, NewPaymentRow(tbl, user, e))

\* prisma.payment.create: the table after the insertion.
PaymentCreate(tbl, user, e) == Append(tbl, NewPaymentRow(tbl, user, e))

\* ------------------------------------------------------------------ Init
Init ==
    /\ users = <<>>
    /\ payments = <<>>
    /\ customers = <<>>
    /\ vpc = [v \in Visits |-> "idle"]
    /\ vsess = [v \in Visits |-> NoSession]
    /\ vuser = [v \in Visits |-> None]
    /\ vdata = [v \in Visits |-> NULL]
    /\ verr = [v \in Visits |-> NULL]
    /\ vlog = [v \in Visits |-> <<>>]
    /\ hpc = [h \in Hooks |-> "idle"]
    /\ hbody = [h \in Hooks |-> NoEvent]
    /\ hsig = [h \in Hooks |-> FALSE]
    /\ hevent = [h \in Hooks |-> NoEvent]
    /\ huser = [h \in Hooks |-> None]
    /\ hresp = [h \in Hooks |-> 0]
    /\ hlog = [h \in Hooks |-> <<>>]
    /\ stripeSessions = <<>>
    /\ bpc = [b \in Pages |-> "idle"]
    /\ bsess = [b \in Pages |-> NoSession]
    /\ bdata = [b \in Pages |-> None]
    /\ bdb = [b \in Pages |-> NULL]
    /\ burl = [b \in Pages |-> NULL]
    /\ berr = [b \in Pages |-> NULL]
    /\ blog = [b \in Pages |-> <<>>]

\* Requests received so far.
Arrived == Cardinality({ v \in Visits : vpc[v] # "idle" })
           + Cardinality({ h \in Hooks : hpc[h] # "idle" })
           + Cardinality({ b \in Pages : bpc[b] # "idle" })

\* ------------------------------------------------------------------ dashboard
\* Mutant of AfterLookup: the customer is created whatever the row holds.
AfterLookup_AlwaysProvision(found, firstLookup) ==
    IF found = None /\ firstLookup THEN "create" ELSE "stripe"

\* Mutant of AfterLookup: a row that exists is taken as provisioned.
AfterLookup_NoRetry(found, firstLookup) ==
    IF found = None /\ firstLookup THEN "create"
    ELSE IF found = None THEN "stripe"
    ELSE "done"

\* Where getData goes after a lookup: create the row, create the customer, or return.
AfterLookup(found, firstLookup) ==
    IF found = None /\ firstLookup THEN "create"
    ELSE IF found = None \/ found[1].stripe_customer_id = NULL THEN "stripe"
    ELSE "done"

\* DashboardLayout up to getData's first lookup.
DashboardLayout(v, s) ==
    /\ vpc[v] = "idle"
    /\ Arrived < MaxRequests
    /\ IF v = 1 THEN TRUE ELSE vpc[v - 1] # "idle"
    /\ vsess' = [vsess EXCEPT ![v] = s]
    /\ IF s.userId = NULL \/ s.email = NULL
       THEN /\ vpc' = [vpc EXCEPT ![v] = "redirect"]
            /\ UNCHANGED <<vuser, vlog>>
       ELSE LET found == SelectIdAndCustomer(FindUserByClerk(users, s.userId))
            IN  /\ vuser' = [vuser EXCEPT ![v] = found]
                /\ vlog' = [vlog EXCEPT ![v] = Append(@, "user.findUnique")]
                /\ vpc' = [vpc EXCEPT ![v] = AfterLookup(found, TRUE)]
    /\ UNCHANGED <<users, payments, customers, vdata, verr, hookVars, pageVars>>

\* getData: prisma.user.create; a taken clerk_id makes the call throw.
CreateUser(v) ==
    /\ vpc[v] = "create"
    /\ vlog' = [vlog EXCEPT ![v] = Append(@, "user.create")]
    /\ IF ClerkIdIsFree(users, vsess[v].userId)
       THEN /\ users' = UserCreate(users, vsess[v])
            /\ vpc' = [vpc EXCEPT ![v] = "refetch"]
            /\ UNCHANGED verr
       ELSE /\ vpc' = [vpc EXCEPT ![v] = "error"]
            /\ verr' = [verr EXCEPT ![v] = "unique constraint clerk_id"]
            /\ UNCHANGED users
    /\ UNCHANGED <<payments, customers, vsess, vuser, vdata, hookVars, pageVars>>

\* getData: the lookup after the creation.
RefetchUser(v) ==
    /\ vpc[v] = "refetch"
    /\ vlog' = [vlog EXCEPT ![v] = Append(@, "user.findUnique")]
    /\ LET found == SelectIdAndCustomer(FindUserByClerk(users, vsess[v].userId))
       IN  /\ vuser' = [vuser EXCEPT ![v] = found]
           /\ vpc' = [vpc EXCEPT ![v] = AfterLookup(found, FALSE)]
    /\ UNCHANGED <<users, payments, customers, vsess, vdata, verr, hookVars, pageVars>>

\* getData: stripe.customers.create({ email }) returns a new customer.
CreateCustomer(v) ==
    /\ vpc[v] = "stripe"
    /\ vlog' = [vlog EXCEPT ![v] = Append(@, "customers.create")]
    /\ customers' = Append(customers,
                           [id |-> CusId(Len(customers) + 1), email |-> vsess[v].email])
    /\ vdata' = [vdata EXCEPT ![v] = CusId(Len(customers) + 1)]
    /\ vpc' = [vpc EXCEPT ![v] = "update"]
    /\ UNCHANGED <<users, payments, vsess, vuser, verr, hookVars, pageVars>>

\* Mutant of CreateCustomerFails: the error is swallowed and the update runs
\* with the id of a response that never came.
CreateCustomerFails_Swallowed(v) ==
    /\ vpc[v] = "stripe"
    /\ vlog' = [vlog EXCEPT ![v] = Append(@, "customers.create")]
    /\ vdata' = [vdata EXCEPT ![v] = "undefined"]
    /\ vpc' = [vpc EXCEPT ![v] = "update"]
    /\ UNCHANGED <<users, payments, customers, vsess, vuser, verr, hookVars, pageVars>>

\* getData: stripe.customers.create fails; the error leaves getData.
CreateCustomerFails(v) ==
    /\ vpc[v] = "stripe"
    /\ vlog' = [vlog EXCEPT ![v] = Append(@, "customers.create")]
    /\ vpc' = [vpc EXCEPT ![v] = "error"]
    /\ verr' = [verr EXCEPT ![v] = "stripe customers.create"]
    /\ UNCHANGED <<users, payments, customers, vsess, vuser, vdata, hookVars, pageVars>>

\* getData: prisma.user.update of stripe_customer_id, by clerk_id.
UpdateUser(v) ==
    /\ vpc[v] = "update"
    /\ vlog' = [vlog EXCEPT ![v] = Append(@, "user.update")]
    /\ IF ClerkIdIsFree(users, vsess[v].userId)
       THEN /\ vpc' = [vpc EXCEPT ![v] = "error"]
            /\ verr' = [verr EXCEPT ![v] = "record to update not found"]
            /\ UNCHANGED users
       ELSE IF ~CustomerIdIsFree(users, vsess[v].userId, vdata[v])
       THEN /\ vpc' = [vpc EXCEPT ![v] = "error"]
            /\ verr' = [verr EXCEPT ![v] = "unique constraint stripe_customer_id"]
            /\ UNCHANGED users
       ELSE /\ users' = SetCustomer(users, vsess[v].userId, vdata[v])
            /\ vpc' = [vpc EXCEPT ![v] = "reload"]
            /\ UNCHANGED verr
    /\ UNCHANGED <<payments, customers, vsess, vuser, vdata, hookVars, pageVars>>

\* getData: the last lookup; getData returns and the layout renders.
ReloadUser(v) ==
    /\ vpc[v] = "reload"
    /\ vlog' = [vlog EXCEPT ![v] = Append(@, "user.findUnique")]
    /\ vuser' = [vuser EXCEPT ![v] =
                    SelectIdAndCustomer(FindUserByClerk(users, vsess[v].userId))]
    /\ vpc' = [vpc EXCEPT ![v] = "done"]
    /\ UNCHANGED <<users, payments, customers, vsess, vdata, verr, hookVars, pageVars>>

\* ------------------------------------------------------------------ webhook
\* Mutant of constructEvent: the body is parsed without verification.
constructEvent_Unverified(body, sigOk) == Some(body)

\* stripe.webhooks.constructEvent: the event of the body, or a throw.
constructEvent(body, sigOk) == IF sigOk THEN Some(body) ELSE None

\* Mutant of IsPaymentCheckout: the mode of the session is not looked at.
IsPaymentCheckout_AnyMode(e) == e.type = "checkout.session.completed"

\* Does POST reach the one-off payment branch for this event?
IsPaymentCheckout(e) ==
    /\ e.type = "checkout.session.completed"
    /\ e.mode # "subscription"
    /\ e.mode = "payment"

\* POST up to the lookup of the user: verification, dispatch, findUnique, throw.
POST(h, body, sigOk) ==
    /\ hpc[h] = "idle"
    /\ Arrived < MaxRequests
    /\ IF h = 1 THEN TRUE ELSE hpc[h - 1] # "idle"
    /\ hbody' = [hbody EXCEPT ![h] = body]
    /\ hsig' = [hsig EXCEPT ![h] = sigOk]
    /\ LET ev == constructEvent(body, sigOk)
       IN  IF ev = None
           THEN /\ hresp' = [hresp EXCEPT ![h] = 400]
                /\ hpc' = [hpc EXCEPT ![h] = "responded"]
                /\ UNCHANGED <<hevent, huser, hlog>>
           ELSE IF IsPaymentCheckout(ev[1])
           THEN LET found == FindUserByCustomer(users, String(ev[1].customer))
                IN  /\ hevent' = [hevent EXCEPT ![h] = ev[1]]
                    /\ huser' = [huser EXCEPT ![h] = found]
                    /\ hlog' = [hlog EXCEPT ![h] = Append(@, "user.findUnique")]
                    /\ hpc' = [hpc EXCEPT ![h] =
                                  IF found = None THEN "threw" ELSE "insert"]
                    /\ UNCHANGED hresp
           ELSE /\ hevent' = [hevent EXCEPT ![h] = ev[1]]
                /\ hresp' = [hresp EXCEPT ![h] = 200]
                /\ hpc' = [hpc EXCEPT ![h] = "responded"]
                /\ UNCHANGED <<huser, hlog>>
    /\ UNCHANGED <<users, payments, customers, visitVars, pageVars>>

\* POST: prisma.payment.create, then the 200 response.
InsertPayment(h) ==
    /\ hpc[h] = "insert"
    /\ hlog' = [hlog EXCEPT ![h] = Append(@, "payment.create")]
    /\ IF PaymentKeysAreFree(payments, NewPaymentRow(payments, huser[h][1], hevent[h]))
       THEN /\ payments' = PaymentCreate(payments, huser[h][1], hevent[h])
            /\ hresp' = [hresp EXCEPT ![h] = 200]
            /\ hpc' = [hpc EXCEPT ![h] = "responded"]
       ELSE /\ hpc' = [hpc EXCEPT ![h] = "threw"]
            /\ UNCHANGED <<payments, hresp>>
    /\ UNCHANGED <<users, customers, visitVars, pageVars, hbody, hsig, hevent, huser>>

\* ------------------------------------------------------------------ billing
\* The ids of the customers the provider holds.
CustomerIds == { customers[k].id : k \in 1..Len(customers) }

\* The Payment rows the where clause { user: { clerk_id } } matches.
PaymentsOfClerk(pays, usrs, clerkId) ==
    { k \in 1..Len(pays) :
        \E i \in 1..Len(usrs) :
            usrs[i].user_id = pays[k].user_id /\ usrs[i].clerk_id = clerkId }

\* Mutant of SelectStatusAndCustomer: the select leaves out the user relation.
SelectStatusAndCustomer_NoJoin(pays, usrs, k) ==
    [status |-> pays[k].status, stripe_customer_id |-> NULL]

\* The select { status, user: { stripe_customer_id } } of a Payment row.
SelectStatusAndCustomer(pays, usrs, k) ==
    LET owner == usrs[CHOOSE i \in 1..Len(usrs) : usrs[i].user_id = pays[k].user_id]
    IN  [status |-> pays[k].status, stripe_customer_id |-> owner.stripe_customer_id]

\* prisma.payment.findFirst without orderBy: null when no row matches, else
\* one of the matching rows; which one is not specified, so every matching
\* row is a possible result.
FindFirstPayment(pays, usrs, clerkId) ==
    IF PaymentsOfClerk(pays, usrs, clerkId) = {}
    THEN { None }
    ELSE { Some(SelectStatusAndCustomer(pays, usrs, k)) :
                k \in PaymentsOfClerk(pays, usrs, clerkId) }

\* data?.status === 'paid': the page renders the portal form, not the offer.
ShowsPortal(data) == data # None /\ data[1].status = "paid"

\* Mutant of BillingPage: the page reads the payments before it looks at the
\* session.
BillingPage_NoGuard(b, s) ==
    /\ bpc[b] = "idle"
    /\ Arrived < MaxRequests
    /\ IF b = 1 THEN TRUE ELSE bpc[b - 1] # "idle"
    /\ bsess' = [bsess EXCEPT ![b] = s]
    /\ \E d \in FindFirstPayment(payments, users, s.userId) :
          /\ bdata' = [bdata EXCEPT ![b] = d]
          /\ blog' = [blog EXCEPT ![b] = Append(@, "payment.findFirst")]
          /\ IF s.userId = NULL
             THEN /\ bpc' = [bpc EXCEPT ![b] = "redirect"]
                  /\ burl' = [burl EXCEPT ![b] = "/"]
             ELSE /\ bpc' = [bpc EXCEPT ![b] = IF ShowsPortal(d) THEN "portal" ELSE "offer"]
                  /\ UNCHANGED burl
    /\ UNCHANGED <<users, payments, customers, visitVars, hookVars,
                   stripeSessions, bdb, berr>>

\* BillingPage: auth(), the redirect without a session, getData, and the
\* branch of the page that is rendered.
BillingPage(b, s) ==
    /\ bpc[b] = "idle"
    /\ Arrived < MaxRequests
    /\ IF b = 1 THEN TRUE ELSE bpc[b - 1] # "idle"
    /\ bsess' = [bsess EXCEPT ![b] = s]
    /\ IF s.userId = NULL
       THEN /\ bpc' = [bpc EXCEPT ![b] = "redirect"]
            /\ burl' = [burl EXCEPT ![b] = "/"]
            /\ UNCHANGED <<bdata, blog>>
       ELSE \E d \in FindFirstPayment(payments, users, s.userId) :
                /\ bdata' = [bdata EXCEPT ![b] = d]
                /\ blog' = [blog EXCEPT ![b] = Append(@, "payment.findFirst")]
                /\ bpc' = [bpc EXCEPT ![b] = IF ShowsPortal(d) THEN "portal" ELSE "offer"]
                /\ UNCHANGED burl
    /\ UNCHANGED <<users, payments, customers, visitVars, hookVars,
                   stripeSessions, bdb, berr>>

\* Mutant of createSubscription: a user without a customer id is given one.
createSubscription_Provisions(b) ==
    /\ bpc[b] = "offer"
    /\ blog' = [blog EXCEPT ![b] = Append(@, "user.findUnique")]
    /\ LET dbUser == FindUserByClerk(users, bsess[b].userId)
       IN  IF dbUser = None
           THEN /\ bpc' = [bpc EXCEPT ![b] = "error"]
                /\ berr' = [berr EXCEPT ![b] = "No stripe customer id found"]
                /\ UNCHANGED <<bdb, users>>
           ELSE IF dbUser[1].stripe_customer_id = NULL
           THEN /\ users' = SetCustomer(users, bsess[b].userId, "cus_new")
                /\ bdb' = [bdb EXCEPT ![b] = "cus_new"]
                /\ bpc' = [bpc EXCEPT ![b] = "checkout"]
                /\ UNCHANGED berr
           ELSE /\ bdb' = [bdb EXCEPT ![b] = dbUser[1].stripe_customer_id]
                /\ bpc' = [bpc EXCEPT ![b] = "checkout"]
                /\ UNCHANGED <<berr, users>>
    /\ UNCHANGED <<payments, customers, visitVars, hookVars,
                   stripeSessions, bsess, bdata, burl>>

\* Mutant of createSubscription: the stripe_customer_id is passed on unchecked.
createSubscription_Unchecked(b) ==
    /\ bpc[b] = "offer"
    /\ blog' = [blog EXCEPT ![b] = Append(@, "user.findUnique")]
    /\ LET dbUser == FindUserByClerk(users, bsess[b].userId)
       IN  bdb' = [bdb EXCEPT ![b] =
                      IF dbUser = None THEN NULL ELSE dbUser[1].stripe_customer_id]
    /\ bpc' = [bpc EXCEPT ![b] = "checkout"]
    /\ UNCHANGED <<users, payments, customers, visitVars, hookVars,
                   stripeSessions, bsess, bdata, burl, berr>>

\* createSubscription up to getStripeSession: the lookup of the user by
\* clerk_id and the throw when the row or its stripe_customer_id is missing.
createSubscription(b) ==
    /\ bpc[b] = "offer"
    /\ blog' = [blog EXCEPT ![b] = Append(@, "user.findUnique")]
    /\ LET dbUser == FindUserByClerk(users, bsess[b].userId)
       IN  IF dbUser = None \/ dbUser[1].stripe_customer_id = NULL
           THEN /\ bpc' = [bpc EXCEPT ![b] = "error"]
                /\ berr' = [berr EXCEPT ![b] = "No stripe customer id found"]
                /\ UNCHANGED bdb
           ELSE /\ bdb' = [bdb EXCEPT ![b] = dbUser[1].stripe_customer_id]
                /\ bpc' = [bpc EXCEPT ![b] = "checkout"]
                /\ UNCHANGED berr
    /\ UNCHANGED <<users, payments, customers, visitVars, hookVars,
                   stripeSessions, bsess, bdata, burl>>

\* createSubscription: getStripeSession returns the url of a new checkout
\* session of the customer, and the action redirects to it.
GetStripeSession(b) ==
    /\ bpc[b] = "checkout"
    /\ bdb[b] \in CustomerIds
    /\ blog' = [blog EXCEPT ![b] = Append(@, "checkout.sessions.create")]
    /\ LET url == SessionUrl("checkout", Len(stripeSessions) + 1)
       IN  /\ stripeSessions' = Append(stripeSessions,
                    [kind |-> "checkout", customer |-> bdb[b], url |-> url])
           /\ burl' = [burl EXCEPT ![b] = url]
    /\ bpc' = [bpc EXCEPT ![b] = "redirected"]
    /\ UNCHANGED <<users, payments, customers, visitVars, hookVars,
                   bsess, bdata, bdb, berr>>

\* createSubscription: getStripeSession fails; the error leaves the action.
GetStripeSessionFails(b) ==
    /\ bpc[b] = "checkout"
    /\ blog' = [blog EXCEPT ![b] = Append(@, "checkout.sessions.create")]
    /\ bpc' = [bpc EXCEPT ![b] = "error"]
    /\ berr' = [berr EXCEPT ![b] = "stripe checkout.sessions.create"]
    /\ UNCHANGED <<users, payments, customers, visitVars, hookVars,
                   stripeSessions, bsess, bdata, bdb, burl>>

\* createCustomerPortal: stripe.billingPortal.sessions.create for the customer
\* of the row the page read, and the redirect to session.url.
createCustomerPortal(b) ==
    /\ bpc[b] = "portal"
    /\ bdata[b][1].stripe_customer_id \in CustomerIds
    /\ blog' = [blog EXCEPT ![b] = Append(@, "billingPortal.sessions.create")]
    /\ LET url == SessionUrl("portal", Len(stripeSessions) + 1)
       IN  /\ stripeSessions' = Append(stripeSessions,
                    [kind |-> "portal", customer |-> bdata[b][1].stripe_customer_id,
                     url |-> url])
           /\ burl' = [burl EXCEPT ![b] = url]
    /\ bpc' = [bpc EXCEPT ![b] = "redirected"]
    /\ UNCHANGED <<users, payments, customers, visitVars, hookVars,
                   bsess, bdata, bdb, berr>>

\* Mutant of createCustomerPortalFails: the error is caught and the action
\* redirects to the url of a session that was not created.
createCustomerPortalFails_Redirects(b) ==
    /\ bpc[b] = "portal"
    /\ blog' = [blog EXCEPT ![b] = Append(@, "billingPortal.sessions.create")]
    /\ bpc' = [bpc EXCEPT ![b] = "redirected"]
    /\ burl' = [burl EXCEPT ![b] = "undefined"]
    /\ UNCHANGED <<users, payments, customers, visitVars, hookVars,
                   stripeSessions, bsess, bdata, bdb, berr>>

\* createCustomerPortal: stripe.billingPortal.sessions.create fails; the error
\* leaves the action.
createCustomerPortalFails(b) ==
    /\ bpc[b] = "portal"
    /\ blog' = [blog EXCEPT ![b] = Append(@, "billingPortal.sessions.create")]
    /\ bpc' = [bpc EXCEPT ![b] = "error"]
    /\ berr' = [berr EXCEPT ![b] = "stripe billingPortal.sessions.create"]
    /\ UNCHANGED <<users, payments, customers, visitVars, hookVars,
                   stripeSessions, bsess, bdata, bdb, burl>>

\* ------------------------------------------------------------------ Next
Next ==
    \/ \E v \in Visits, s \in Sessions : DashboardLayout(v, s)
    \/ \E v \in Visits : CreateUser(v)
    \/ \E v \in Visits : RefetchUser(v)
    \/ \E v \in Visits : CreateCustomer(v)
    \/ \E v \in Visits : CreateCustomerFails(v)
    \/ \E v \in Visits : UpdateUser(v)
    \/ \E v \in Visits : ReloadUser(v)
    \/ \E h \in Hooks, d \in Deliveries : POST(h, d.body, d.sigOk)
    \/ \E h \in Hooks : InsertPayment(h)
    \/ \E b \in Pages, s \in Sessions : BillingPage(b, s)
    \/ \E b \in Pages : createSubscription(b)
    \/ \E b \in Pages : GetStripeSession(b)
    \/ \E b \in Pages : GetStripeSessionFails(b)
    \/ \E b \in Pages : createCustomerPortal(b)
    \/ \E b \in Pages : createCustomerPortalFails(b)

Spec == Init /\ [][Next]_vars

\* ------------------------------------------------------------------ retries
\* The user of an ended dashboard request (returned or thrown) opens the
\* dashboard again: DashboardLayout runs anew with the same session, up to
\* getData's first lookup.  The request takes the place of the ended one.
VisitAgain(v) ==
    /\ vpc[v] \in {"done", "error"}
    /\ LET found == SelectIdAndCustomer(FindUserByClerk(users, vsess[v].userId))
       IN  /\ vuser' = [vuser EXCEPT ![v] = found]
           /\ vlog' = [vlog EXCEPT ![v] = <<"user.findUnique">>]
           /\ vpc' = [vpc EXCEPT ![v] = AfterLookup(found, TRUE)]
    /\ vdata' = [vdata EXCEPT ![v] = NULL]
    /\ verr' = [verr EXCEPT ![v] = NULL]
    /\ UNCHANGED <<users, payments, customers, vsess, hookVars, pageVars>>

RetryNext ==
    \/ Next
    \/ \E v \in Visits : VisitAgain(v)

\* Every awaited call of getData returns or throws, so a request that is in
\* getData goes on; the user of an ended request comes back; and the provider's
\* customers.create, called again and again, succeeds at some point.
RetryFairness ==
    \A v \in Visits :
        /\ WF_vars(CreateUser(v))
        /\ WF_vars(RefetchUser(v))
        /\ SF_vars(CreateCustomer(v))
        /\ WF_vars(UpdateUser(v))
        /\ WF_vars(ReloadUser(v))
        /\ WF_vars(VisitAgain(v))

RetrySpec == Init /\ [][RetryNext]_vars /\ RetryFairness

\* ------------------------------------------------------------------ helpers
\* Delivery h takes its first step (POST is entered and runs up to its lookup).
Received(h) == hpc[h] = "idle" /\ hpc'[h] # "idle"

\* Delivery h takes the step that calls prisma.payment.create.
Inserting(h) == hpc[h] = "insert" /\ hpc'[h] # "insert"

\* Some step of delivery h.
HookStep(h) == hpc'[h] # hpc[h]

\* The rows of User whose stripe_customer_id is the (non-null) id c.
RowsOfCustomer(tbl, c) ==
    { i \in 1..Len(tbl) : c # NULL /\ tbl[i].stripe_customer_id = c }

RowsOfClerk(tbl, clerkId) == { i \in 1..Len(tbl) : tbl[i].clerk_id = clerkId }

\* tbl2 is tbl with exactly one more row at its end.
OneRowAppended(tbl, tbl2) ==
    /\ Len(tbl2) = Len(tbl) + 1
    /\ SubSeq(tbl2, 1, Len(tbl)) = tbl

\* In minor units, the decimal amount a Payment row stores.
MinorUnits(amount) == amount.units * 100 + amount.hundredths

Count(log, call) == Cardinality({ k \in 1..Len(log) : log[k] = call })

\* ------------------------------------------------------------------ C1
\* C1: a signed checkout.session.completed delivery in payment mode whose
\* customer is the stripe_customer_id of a User goes on to prisma.payment.create,
\* and that call appends exactly one Payment row, whatever rows exist already:
\* the row is owned by that User, its amount is amount_total / 100 (0 when
\* amount_total is null), its currency and status are the session's, and the
\* response is 200.
C1_PaymentInserted ==
    [][\A h \in Hooks :
        /\ ( /\ Received(h)
             /\ hsig'[h]
             /\ IsPaymentCheckout(hbody'[h])
             /\ RowsOfCustomer(users, hbody'[h].customer) # {} )
           => /\ hpc'[h] = "insert"
              /\ huser'[h] # None
              /\ huser'[h][1].stripe_customer_id = hbody'[h].customer
              /\ hevent'[h] = hbody'[h]
        /\ Inserting(h)
           => /\ OneRowAppended(payments, payments')
              /\ hresp'[h] = 200
              /\ LET row == payments'[Len(payments')]
                     e == hevent[h]
                 IN  /\ row.user_id = huser[h][1].user_id
                     /\ row.stripe_payment_id = e.payment_intent
                     /\ row.currency = e.currency
                     /\ row.status = e.payment_status
                     /\ row.amount.hundredths \in 0..99
                     /\ MinorUnits(row.amount) =
                            (IF e.amount_total = None THEN 0 ELSE e.amount_total[1])
    ]_vars

\* A paid checkout of 4000 usd was delivered twice and answered 200 twice: two
\* rows of 40.00 usd, status paid, hold the same payment reference.
C1_Witness ==
    /\ \E g, h \in Hooks :
        /\ g # h
        /\ hresp[g] = 200 /\ hresp[h] = 200
        /\ hevent[g] = hevent[h]
        /\ IsPaymentCheckout(hevent[h])
        /\ hevent[h].amount_total = Some(4000)
    /\ \E i, j \in 1..Len(payments) :
        /\ i # j
        /\ payments[i].stripe_payment_id = payments[j].stripe_payment_id
        /\ payments[i].amount = [units |-> 40, hundredths |-> 0]
        /\ payments[j].amount = [units |-> 40, hundredths |-> 0]
        /\ payments[i].currency = "usd"
        /\ payments[i].status = "paid"

\* ------------------------------------------------------------------ C2
\* C2: a delivery whose signature does not verify is answered 400 by its first
\* step, which made no store call and changed neither table (nor the provider);
\* the delivery takes no further step.
C2_BadSignatureRejected ==
    [][\A h \in Hooks :
        /\ (Received(h) /\ ~hsig'[h])
           => /\ hresp'[h] = 400
              /\ hpc'[h] = "responded"
              /\ hlog'[h] = <<>>
              /\ huser'[h] = None
              /\ UNCHANGED <<users, payments, customers>>
        /\ (hpc[h] # "idle" /\ ~hsig[h]) => ~HookStep(h)
        /\ (hresp'[h] = 400) => (~hsig'[h] /\ hlog'[h] = <<>>)
    ]_vars

\* A forged paid checkout of a customer that a User holds was answered 400.
C2_Witness ==
    \E h \in Hooks :
        /\ hresp[h] = 400
        /\ ~hsig[h]
        /\ IsPaymentCheckout(hbody[h])
        /\ RowsOfCustomer(users, hbody[h].customer) # {}
        /\ payments = <<>>

\* ------------------------------------------------------------------ C3
\* C3: a signed payment-mode checkout whose customer (none, or an id no User
\* holds) resolves to no User makes POST throw: no response is returned, no
\* prisma.payment.create is called and Payment is unchanged.
C3_UnknownCustomerThrows ==
    [][\A h \in Hooks :
        /\ ( /\ Received(h)
             /\ hsig'[h]
             /\ IsPaymentCheckout(hbody'[h])
             /\ RowsOfCustomer(users, hbody'[h].customer) = {} )
           => /\ hpc'[h] = "threw"
              /\ hresp'[h] = 0
              /\ payments' = payments
        /\ hpc[h] = "threw"
           => /\ ~HookStep(h)
              /\ hresp[h] = 0
              /\ Count(hlog[h], "payment.create") = 0
    ]_vars

\* Both cases happened while a User without stripe_customer_id exists: a
\* session without customer, and a session of a customer id that no User holds.
C3_Witness ==
    /\ \E h \in Hooks :
        hpc[h] = "threw" /\ hevent[h].customer = NULL
    /\ \E h \in Hooks :
        hpc[h] = "threw" /\ hevent[h].customer # NULL
    /\ \E i \in 1..Len(users) : users[i].stripe_customer_id = NULL
    /\ payments = <<>>

\* ------------------------------------------------------------------ C4
\* C4: at most one Payment row exists per stripe_payment_id, whatever is
\* delivered and redelivered.
C4_OnePaymentPerReference ==
    \A i, j \in 1..Len(payments) :
        payments[i].stripe_payment_id = payments[j].stripe_payment_id => i = j

\* ------------------------------------------------------------------ C5
\* C5: a step of a webhook delivery leaves User and the provider's customers
\* alone, and either leaves Payment alone or appends one row to it; a delivery
\* calls prisma.payment.create at most once, and Payment holds one row per call.
C5_AtMostOneInsertion ==
    [][\A h \in Hooks :
        HookStep(h)
        => /\ UNCHANGED <<users, customers>>
           /\ payments' = payments \/ OneRowAppended(payments, payments')
           /\ Count(hlog'[h], "payment.create") <= 1
           /\ Len(payments') =
                 Cardinality({ g \in Hooks : Count(hlog'[g], "payment.create") = 1 })
    ]_vars

\* Deliveries ended in each way (400, 200 without and with a row, a throw).
C5_Witness ==
    /\ \E h \in Hooks : hresp[h] = 200 /\ Count(hlog[h], "payment.create") = 1
    /\ \E h \in Hooks : hpc[h] = "threw" \/ hresp[h] = 400
    /\ Len(payments) = 1
    /\ users # <<>>

\* ------------------------------------------------------------------ C6
\* C6: a signed delivery that is a subscription-mode checkout, an
\* invoice.payment_succeeded or any other kind is answered 200 by its first
\* step, which made no store call and changed nothing.
C6_OtherEventsAreNoops ==
    [][\A h \in Hooks :
        (Received(h) /\ hsig'[h] /\ hbody'[h] \in NoopEvents)
        => /\ hresp'[h] = 200
           /\ hpc'[h] = "responded"
           /\ hlog'[h] = <<>>
           /\ UNCHANGED <<users, payments, customers>>
    ]_vars

\* A subscription-mode checkout of a customer that a User holds was answered
\* 200 and left Payment empty.
C6_Witness ==
    \E h \in Hooks :
        /\ hresp[h] = 200
        /\ hevent[h].type = "checkout.session.completed"
        /\ hevent[h].mode = "subscription"
        /\ RowsOfCustomer(users, hevent[h].customer) # {}
        /\ payments = <<>>

\* ------------------------------------------------------------------ C7
\* C7: a stripe_customer_id that is set never changes.
C7_CustomerIdImmutable ==
    [][\A i \in 1..Len(users) :
        users[i].stripe_customer_id # NULL
        => users'[i].stripe_customer_id = users[i].stripe_customer_id
    ]_vars

\* ------------------------------------------------------------------ C8
\* A dashboard request that has arrived and has not returned yet.
Running(v) == vpc[v] \notin {"idle", "redirect", "done", "error"}

\* The provider's customers created for an email.
CustomersOf(email) == { k \in 1..Len(customers) : customers[k].email = email }

\* C8: once every dashboard request of a user has returned, and one of them
\* completed provisioning, that user has exactly one User row and the provider
\* holds exactly one customer created for the user.
C8_OneRowOneCustomer ==
    \A v \in Visits :
        ( /\ vpc[v] = "done"
          /\ \A w \in Visits : vsess[w].userId = vsess[v].userId => ~Running(w) )
        => /\ Cardinality(RowsOfClerk(users, vsess[v].userId)) = 1
           /\ Cardinality(CustomersOf(vsess[v].email)) = 1

\* ------------------------------------------------------------------ C9
\* C9: a request whose prisma.user.create hits the unique key on clerk_id does
\* not end in that error.
C9_LostRaceProceeds ==
    \A v \in Visits : verr[v] # "unique constraint clerk_id"

\* ------------------------------------------------------------------ C10
\* Request v found no User row for its subject id: its second call is the
\* creation of the row.
FirstVisit(v) == Len(vlog[v]) >= 2 /\ vlog[v][2] = "user.create"

\* C10: when a request that found no User row for its subject id has completed
\* provisioning, exactly one User row has that subject id, and it carries the
\* request's email.
C10_FirstVisitCreatesOneRow ==
    \A v \in Visits :
        (vpc[v] = "done" /\ FirstVisit(v))
        => /\ Cardinality(RowsOfClerk(users, vsess[v].userId)) = 1
           /\ \A i \in RowsOfClerk(users, vsess[v].userId) :
                users[i].email = vsess[v].email

\* A lone first request of u_1 completed: its row holds a@b.com.
C10_Witness ==
    /\ vpc[1] = "done"
    /\ FirstVisit(1)
    /\ vsess[1].userId = "u_1"
    /\ \A w \in Visits : w # 1 => vpc[w] = "idle"
    /\ \E i \in 1..Len(users) : users[i].clerk_id = "u_1" /\ users[i].email = "a@b.com"

\* ------------------------------------------------------------------ C11
\* Some step of dashboard request v.
VisitStep(v) == vpc'[v] # vpc[v]

\* C11: a dashboard request whose lookup finds the User row with a
\* stripe_customer_id returns at once: its only call is that lookup, the step
\* leaves User, Payment and the provider's customers as they were, and the
\* request takes no further step.
C11_ProvisionedVisitIsNoop ==
    [][\A v \in Visits :
        /\ ( /\ vpc[v] = "idle" /\ VisitStep(v)
             /\ \E i \in RowsOfClerk(users, vsess'[v].userId) :
                    users[i].stripe_customer_id # NULL
             /\ vsess'[v].email # NULL )
           => /\ vpc'[v] = "done"
              /\ vlog'[v] = <<"user.findUnique">>
              /\ UNCHANGED <<users, payments, customers>>
        /\ vpc[v] = "done" => ~VisitStep(v)
    ]_vars

\* A second request of u_1 returned after its lookup, the first having
\* provisioned row and customer.
C11_Witness ==
    /\ vpc[1] = "done" /\ FirstVisit(1) /\ vsess[1].userId = "u_1"
    /\ vpc[2] = "done" /\ vlog[2] = <<"user.findUnique">> /\ vsess[2].userId = "u_1"
    /\ Len(customers) = 1
    /\ Len(users) = 1

\* ------------------------------------------------------------------ C12
\* C12: when stripe.customers.create fails, the step ends the request with
\* that error and changes neither User nor the provider's customers; the
\* request never calls prisma.user.update, so the row keeps its empty
\* stripe_customer_id unless another request's update sets it; and every
\* stripe_customer_id in User is an id the provider returned.
C12_FailedCustomerIsNotPersisted ==
    [][/\ \A v \in Visits :
            /\ (vpc[v] = "stripe" /\ VisitStep(v) /\ Len(customers') = Len(customers))
               => /\ vpc'[v] = "error"
                  /\ verr'[v] = "stripe customers.create"
                  /\ UNCHANGED <<users, payments, customers>>
            /\ vpc[v] = "error" => ~VisitStep(v)
            /\ verr'[v] = "stripe customers.create"
               => /\ Count(vlog'[v], "user.update") = 0
                  /\ \A i \in RowsOfClerk(users', vsess'[v].userId) :
                        \/ users'[i].stripe_customer_id = NULL
                        \/ \E w \in Visits :
                              /\ w # v
                              /\ vsess'[w].userId = vsess'[v].userId
                              /\ Count(vlog'[w], "user.update") = 1
       /\ \A i \in 1..Len(users') :
            users'[i].stripe_customer_id # NULL
            => users'[i].stripe_customer_id \in CustomerIds'
    ]_vars

\* The provider failed for a first request (row created) and for a later
\* request (row found): the row of u_1 has no stripe_customer_id.
C12_Witness ==
    /\ verr[1] = "stripe customers.create" /\ FirstVisit(1)
    /\ verr[2] = "stripe customers.create" /\ ~FirstVisit(2)
    /\ vsess[1].userId = "u_1" /\ vsess[2].userId = "u_1"
    /\ \E i \in 1..Len(users) :
        users[i].clerk_id = "u_1" /\ users[i].stripe_customer_id = NULL
    /\ customers = <<>>

\* ------------------------------------------------------------------ C16
\* The event of the body is a completed checkout in payment mode.
BodyIsPaymentCheckout(h) ==
    hbody[h].type = "checkout.session.completed" /\ hbody[h].mode = "payment"

\* C16: a delivery is answered 400 exactly when its signature does not verify;
\* a signed delivery of another kind of event is answered 200; a signed
\* payment-mode checkout is answered 200 once prisma.payment.create was called,
\* and only then, for the User that holds the session's customer; a delivery
\* whose user was not resolved has no response.
C16_ResponseStatus ==
    \A h \in Hooks :
        /\ hresp[h] \in {0, 200, 400}
        /\ hresp[h] = 400 <=> (hpc[h] # "idle" /\ ~hsig[h])
        /\ (hpc[h] # "idle" /\ hsig[h] /\ ~BodyIsPaymentCheckout(h)) => hresp[h] = 200
        /\ (hsig[h] /\ BodyIsPaymentCheckout(h))
           => /\ hresp[h] = 200 <=> Count(hlog[h], "payment.create") = 1
              /\ hresp[h] = 200
                 => /\ huser[h] # None
                    /\ hbody[h].customer # NULL
                    /\ huser[h][1].stripe_customer_id = hbody[h].customer
              /\ (hpc[h] # "idle" /\ huser[h] = None)
                 => hresp[h] = 0 /\ hpc[h] = "threw"

\* One delivery was rejected with 400, one of another kind of event was
\* answered 200, and one threw for an unknown customer without a response.
C16_Witness ==
    /\ \E h \in Hooks : hresp[h] = 400 /\ ~hsig[h]
    /\ \E h \in Hooks : hresp[h] = 200 /\ hsig[h] /\ hbody[h] \in NoopEvents
    /\ \E h \in Hooks :
        hpc[h] = "threw" /\ hresp[h] = 0 /\ hsig[h] /\ BodyIsPaymentCheckout(h)

\* ------------------------------------------------------------------ C19
\* C19: no two User rows hold the same clerk_id, and no two hold the same
\* stripe_customer_id.
C19_UserKeysAreUnique ==
    \A i, j \in 1..Len(users) :
        /\ users[i].clerk_id = users[j].clerk_id => i = j
        /\ ( /\ users[i].stripe_customer_id # NULL
             /\ users[i].stripe_customer_id = users[j].stripe_customer_id ) => i = j

\* Two requests of u_1 raced for the creation, one lost; u_1 and u_2 each hold
\* a customer id.
C19_Witness ==
    /\ \E v \in Visits : verr[v] = "unique constraint clerk_id"
    /\ Len(users) = 2
    /\ \A i \in 1..Len(users) : users[i].stripe_customer_id # NULL

\* ------------------------------------------------------------------ C20
\* The calls of a complete provisioning run, in order.
FullRun ==
    <<"user.findUnique", "user.create", "user.findUnique",
      "customers.create", "user.update", "user.findUnique">>

IsPrefix(s, r) == Len(s) <= Len(r) /\ s = SubSeq(r, 1, Len(s))

ClerkIds == { users[i].clerk_id : i \in 1..Len(users) }

\* The user of this clerk id owns a Payment row with status 'paid'.
HasPaidPayment(pays, usrs, clerkId) ==
    \E k \in PaymentsOfClerk(pays, usrs, clerkId) : pays[k].status = "paid"

\* C13: whatever row getData's findFirst returns, the billing page renders the
\* portal branch for a user if and only if a Payment row with status 'paid'
\* exists for that user.
C13_EntitledIffPaidRow ==
    \A c \in ClerkIds :
        \A d \in FindFirstPayment(payments, users, c) :
            ShowsPortal(d) <=> HasPaidPayment(payments, users, c)

\* ------------------------------------------------------------------ C14
\* The billing page can render the portal branch for this clerk id.
CanShowPortal(pays, usrs, clerkId) ==
    \E d \in FindFirstPayment(pays, usrs, clerkId) : ShowsPortal(d)

\* The billing page renders the portal branch for this clerk id whatever row
\* findFirst returns.
MustShowPortal(pays, usrs, clerkId) ==
    \A d \in FindFirstPayment(pays, usrs, clerkId) : ShowsPortal(d)

\* C14: a user for whom the billing page can render the portal branch is
\* rendered the portal branch by every evaluation after the next step.
C14_EntitlementNeverRevoked ==
    [][\A c \in ClerkIds :
        CanShowPortal(payments, users, c) => MustShowPortal(payments', users', c)
    ]_vars

\* ------------------------------------------------------------------ C15
\* Some step of billing page request b.
PageStep(b) == bpc'[b] # bpc[b]

\* C15: a dashboard request without a session or without an email on it, and
\* a billing page request without a session, is redirected to '/' in its first
\* step: it makes no store call and no provider call, changes no table and no
\* provider record, and takes no further step.
C15_UnauthenticatedRedirect ==
    [][/\ \A v \in Visits :
            /\ ( /\ vpc[v] = "idle" /\ VisitStep(v)
                 /\ (vsess'[v].userId = NULL \/ vsess'[v].email = NULL) )
               => /\ vpc'[v] = "redirect"
                  /\ vlog'[v] = <<>>
                  /\ UNCHANGED <<users, payments, customers, stripeSessions>>
            /\ vpc[v] = "redirect" => ~VisitStep(v) /\ vlog'[v] = <<>>
       /\ \A b \in Pages :
            /\ (bpc[b] = "idle" /\ PageStep(b) /\ bsess'[b].userId = NULL)
               => /\ bpc'[b] = "redirect"
                  /\ burl'[b] = "/"
                  /\ blog'[b] = <<>>
                  /\ UNCHANGED <<users, payments, customers, stripeSessions>>
            /\ bpc[b] = "redirect" => ~PageStep(b) /\ blog'[b] = <<>>
    ]_vars

\* A dashboard request without a session, a dashboard request of u_3 without
\* an email and a billing page request without a session were redirected, and
\* nothing was read or written.
C15_Witness ==
    /\ \E v \in Visits : vpc[v] = "redirect" /\ vsess[v].userId = NULL
    /\ \E v \in Visits :
        vpc[v] = "redirect" /\ vsess[v].userId = "u_3" /\ vsess[v].email = NULL
    /\ \E b \in Pages : bpc[b] = "redirect" /\ burl[b] = "/" /\ blog[b] = <<>>
    /\ \A v \in Visits : vlog[v] = <<>>
    /\ users = <<>> /\ customers = <<>> /\ stripeSessions = <<>>

\* ------------------------------------------------------------------ C17
\* Billing page request b takes the step of its provider call.
ProviderCallStep(b) == bpc[b] \in {"checkout", "portal"} /\ PageStep(b)

\* C17: the step of an action's provider call either records a new hosted
\* session of the customer the action passed and redirects to the url of that
\* session, or records none, sets no redirect target and ends the action
\* with an error; and an action that ended with an error has no redirect
\* target.
C17_ProviderFailureSurfaces ==
    [][\A b \in Pages :
        /\ ProviderCallStep(b)
           => \/ /\ OneRowAppended(stripeSessions, stripeSessions')
                 /\ bpc'[b] = "redirected"
                 /\ berr'[b] = NULL
                 /\ burl'[b] = stripeSessions'[Len(stripeSessions')].url
                 /\ stripeSessions'[Len(stripeSessions')].customer =
                        (IF bpc[b] = "checkout" THEN bdb[b]
                         ELSE bdata[b][1].stripe_customer_id)
                 /\ stripeSessions'[Len(stripeSessions')].kind = bpc[b]
                 /\ \A k \in 1..Len(stripeSessions) : stripeSessions[k].url # burl'[b]
              \/ /\ stripeSessions' = stripeSessions
                 /\ bpc'[b] = "error"
                 /\ berr'[b] # NULL
                 /\ burl'[b] = NULL
        /\ bpc'[b] = "redirected" => ProviderCallStep(b) \/ bpc[b] = "redirected"
        /\ bpc'[b] = "error" => burl'[b] = NULL /\ berr'[b] # NULL
        /\ bpc[b] \in {"redirected", "error"} => ~PageStep(b)
    ]_vars

\* The portal action of a paid user failed at the provider: the request ended
\* with the provider's error, without a redirect target and without a session.
C17_Witness ==
    \E b \in Pages :
        /\ bpc[b] = "error"
        /\ berr[b] = "stripe billingPortal.sessions.create"
        /\ burl[b] = NULL
        /\ ShowsPortal(bdata[b])
        /\ stripeSessions = <<>>

\* ------------------------------------------------------------------ C18
\* Billing page request b takes a step of one of its two actions.
ServerActionStep(b) == bpc[b] \in {"offer", "checkout", "portal"} /\ PageStep(b)

\* C18: no step of createSubscription or of createCustomerPortal changes the
\* User table or the Payment table, whether the action ends with a redirect
\* or with an error.
C18_ActionsLeaveTablesAlone ==
    [][\A b \in Pages :
        ServerActionStep(b) => users' = users /\ payments' = payments
    ]_vars

\* Two checkout actions of u_1 ended: one threw because the row had no
\* stripe_customer_id yet, the other redirected to a checkout session after
\* the dashboard had created the customer; the row of u_1 holds that id.
C18_Witness ==
    /\ \E b \in Pages : bpc[b] = "redirected" /\ Count(blog[b], "checkout.sessions.create") = 1
    /\ \E b \in Pages : bpc[b] = "error" /\ berr[b] = "No stripe customer id found"
                        /\ bsess[b].userId = "u_1"
    /\ \E i \in 1..Len(users) :
        users[i].clerk_id = "u_1" /\ users[i].stripe_customer_id # NULL

\* ------------------------------------------------------------------ C22
\* C22: every step leaves the rows of Payment as they are and at most appends
\* to them; a step that changes the table is the prisma.payment.create of a
\* signed checkout.session.completed delivery in payment mode, and appends one
\* row; no step of a dashboard request or of a billing page request changes it.
C22_PaymentsAppendOnly ==
    [][/\ Len(payments') >= Len(payments)
       /\ SubSeq(payments', 1, Len(payments)) = payments
       /\ payments' # payments
          => /\ OneRowAppended(payments, payments')
             /\ \E h \in Hooks :
                    Inserting(h) /\ hsig[h] /\ BodyIsPaymentCheckout(h)
       /\ \A v \in Visits : VisitStep(v) => payments' = payments
       /\ \A b \in Pages : PageStep(b) => payments' = payments
    ]_vars

\* Two checkouts of one user were recorded after the user was provisioned:
\* the first row is still there, the second follows it.
C22_Witness ==
    /\ Len(payments) = 2
    /\ payments[1].payment_id = 1 /\ payments[2].payment_id = 2
    /\ payments[1].user_id = payments[2].user_id
    /\ payments[1].stripe_payment_id # payments[2].stripe_payment_id
    /\ \E v \in Visits : vpc[v] = "done" /\ vlog[v] = FullRun

\* ------------------------------------------------------------------ C23
\* C23: when prisma.payment.create runs, the new row's user_id is the id of a
\* User row whose stripe_customer_id is, in that state, the customer of the
\* session the delivery carries.
C23_OwnerHoldsCustomerAtInsertion ==
    [][\A h \in Hooks :
        (Inserting(h) /\ OneRowAppended(payments, payments'))
        => \E i \in 1..Len(users) :
              /\ users[i].user_id = payments'[Len(payments')].user_id
              /\ users[i].stripe_customer_id = hevent[h].customer
    ]_vars

\* ------------------------------------------------------------------ C24
\* The row of this clerk id is missing or has no stripe_customer_id.
NoStoredCustomer(tbl, clerkId) ==
    \A i \in RowsOfClerk(tbl, clerkId) : tbl[i].stripe_customer_id = NULL

\* C24: createSubscription throws after its lookup when the row of the
\* session's clerk id is missing or has no stripe_customer_id, and then makes
\* no provider call and no redirect; otherwise it goes on with the
\* stripe_customer_id its lookup read from that row, and the checkout session
\* it creates is of that customer.
C24_CheckoutNeedsStoredCustomer ==
    [][\A b \in Pages :
        /\ (bpc[b] = "offer" /\ PageStep(b))
           => IF NoStoredCustomer(users, bsess[b].userId)
              THEN /\ bpc'[b] = "error"
                   /\ berr'[b] = "No stripe customer id found"
                   /\ burl'[b] = NULL
                   /\ stripeSessions' = stripeSessions
                   /\ Count(blog'[b], "checkout.sessions.create") = 0
              ELSE /\ bpc'[b] = "checkout"
                   /\ bdb'[b] # NULL
                   /\ \E i \in RowsOfClerk(users, bsess[b].userId) :
                        bdb'[b] = users[i].stripe_customer_id
        /\ berr[b] = "No stripe customer id found"
           => /\ ~PageStep(b)
              /\ burl'[b] = NULL
              /\ Count(blog'[b], "checkout.sessions.create") = 0
        /\ (bpc[b] = "checkout" /\ PageStep(b) /\ stripeSessions' # stripeSessions)
           => /\ OneRowAppended(stripeSessions, stripeSessions')
              /\ stripeSessions'[Len(stripeSessions')].customer = bdb[b]
              /\ bdb[b] # NULL
    ]_vars

\* The checkout action of u_1 threw when u_1 had no row, and again when the
\* row existed without a stripe_customer_id; no session was created.
C24_Witness ==
    /\ \E a, b \in Pages :
        /\ a < b
        /\ berr[a] = "No stripe customer id found" /\ bsess[a].userId = "u_1"
        /\ berr[b] = "No stripe customer id found" /\ bsess[b].userId = "u_1"
    /\ \E i \in 1..Len(users) :
        users[i].clerk_id = "u_1" /\ users[i].stripe_customer_id = NULL
    /\ stripeSessions = <<>>

\* ------------------------------------------------------------------ C25
\* C25: the stripe_customer_id a checkout action has passed to the provider
\* is the stripe_customer_id of a User row, the row of the user who acted, so
\* the webhook's lookup by that id finds that user.
C25_CheckoutCustomerStaysResolvable ==
    \A b \in Pages :
        (bpc[b] = "redirected" /\ bdb[b] # NULL)
        => LET found == FindUserByCustomer(users, String(bdb[b]))
           IN  found # None /\ found[1].clerk_id = bsess[b].userId

\* ------------------------------------------------------------------ C26
\* The User rows that own a Payment row.
PaymentOwners ==
    { i \in 1..Len(users) :
        \E k \in 1..Len(payments) : payments[k].user_id = users[i].user_id }

\* C26: every User row that owns a Payment row has a stripe_customer_id, and
\* a billing page that rendered the portal form holds, as the customer it
\* passes to billingPortal.sessions.create, the id of a provider customer that
\* was created for the email of that user; every portal session is of such a
\* customer.
C26_PayingUserHasCustomer ==
    /\ \A k \in 1..Len(payments) :
        \E i \in PaymentOwners : users[i].user_id = payments[k].user_id
    /\ \A i \in PaymentOwners : users[i].stripe_customer_id # NULL
    /\ \A b \in Pages :
        ShowsPortal(bdata[b])
        => /\ bdata[b][1].stripe_customer_id # NULL
           /\ \E i \in RowsOfClerk(users, bsess[b].userId) :
                [id |-> bdata[b][1].stripe_customer_id, email |-> users[i].email]
                    \in { customers[k] : k \in 1..Len(customers) }
    /\ \A k \in 1..Len(stripeSessions) :
        stripeSessions[k].kind = "portal" => stripeSessions[k].customer \in CustomerIds

\* u_1 paid, was rendered the portal form and was redirected to a portal
\* session of the customer stored on its row.
C26_Witness ==
    \E b \in Pages :
        /\ bpc[b] = "redirected" /\ ShowsPortal(bdata[b]) /\ bsess[b].userId = "u_1"
        /\ Len(stripeSessions) = 1
        /\ stripeSessions[1].kind = "portal"
        /\ stripeSessions[1].url = burl[b]
        /\ \E i \in PaymentOwners :
            /\ users[i].clerk_id = "u_1"
            /\ users[i].stripe_customer_id = stripeSessions[1].customer

\* ------------------------------------------------------------------ C21
\* The clerk ids of the sessions that can be provisioned.
ProvisionableClerkIds == { s.userId : s \in { x \in Sessions : x.userId # NULL /\ x.email # NULL } }

\* A request of this user threw at customers.create and the row of the user
\* has no stripe_customer_id.
LeftWithoutCustomer(clerkId) ==
    /\ \E v \in Visits :
        verr[v] = "stripe customers.create" /\ vsess[v].userId = clerkId
    /\ \E i \in RowsOfClerk(users, clerkId) : users[i].stripe_customer_id = NULL

\* The row of this user holds a stripe_customer_id.
HasCustomer(clerkId) ==
    \E i \in RowsOfClerk(users, clerkId) : users[i].stripe_customer_id # NULL

\* Dashboard request v makes getData's first lookup.
FirstLookupStep(v) == vlog'[v] # vlog[v] /\ vlog'[v] = <<"user.findUnique">>

\* C21: a dashboard request that finds the row of its user without a
\* stripe_customer_id creates no row and goes on to customers.create, which it
\* calls in its next step; no user has two rows; and when a request of a user
\* threw at customers.create and left the row without stripe_customer_id,
\* then, the user coming back and customers.create succeeding at some point,
\* the row of the user gets a stripe_customer_id.
C21_RetriedUntilProvisioned ==
    /\ [][\A v \in Visits :
            /\ ( /\ FirstLookupStep(v)
                 /\ \E i \in RowsOfClerk(users, vsess'[v].userId) :
                        users[i].stripe_customer_id = NULL
                 /\ vsess'[v].email # NULL )
               => /\ vpc'[v] = "stripe"
                  /\ users' = users
            /\ (vpc[v] = "stripe" /\ VisitStep(v))
               => vlog'[v] = Append(vlog[v], "customers.create")
            /\ Cardinality(RowsOfClerk(users', vsess'[v].userId)) <= 1
       ]_vars
    /\ \A c \in ProvisionableClerkIds : LeftWithoutCustomer(c) ~> HasCustomer(c)

\* The first request of u_1 threw at customers.create; a later request of u_1
\* found the row, called customers.create again and wrote the id it got; u_1
\* has one row.
C21_Witness ==
    /\ \E v, w \in Visits :
        /\ verr[v] = "stripe customers.create" /\ vsess[v].userId = "u_1"
        /\ vlog[v] = <<"user.findUnique", "user.create", "user.findUnique", "customers.create">>
        /\ vsess[w].userId = "u_1" /\ vpc[w] = "done"
        /\ vlog[w] = <<"user.findUnique", "customers.create", "user.update", "user.findUnique">>
    /\ Len(users) = 1
    /\ HasCustomer("u_1")
    /\ Len(customers) = 1

====
